---------------------------- MODULE Spec2Model ----------------------------
(***************************************************************************)
(* Model of gtree's traversal engine (gtree.c, print.c, visit_hash.c).     *)
(*                                                                         *)
(* The file system is an input: a finite set of directories, each with an  *)
(* ordered list of entries as readdir() returns them.  The program state   *)
(* is main()'s explicit stack of DirFrames, the visited hash, the          *)
(* ActivityReport and the lines written to stdout.                         *)
(*                                                                         *)
(* Representation choices:                                                 *)
(*  - a name is a sequence of one-character strings, so that d_name[0]     *)
(*    and strcmp() are computed on the characters;                         *)
(*  - a path is a sequence of names ("root/a/b" is <<root, a, b>>);        *)
(*  - the SubDirNode list is a sequence, frame->current is the index of    *)
(*    the node it points to and is NULL when it is Len(subdirs) + 1;       *)
(*  - the SubDirFile list is a sequence whose head is the node that        *)
(*    frame->subfiles points to; element i+1 is the prev of element i;     *)
(*  - a device/inode pair is <<Dev, d>> for directory number d;            *)
(*  - printed text is kept as a record of the pieces printf() is given.    *)
(***************************************************************************)
EXTENDS Integers, Sequences, FiniteSets, TLC

\* ------------------------------------------------------------------------
\* Bounds of the model
\* ------------------------------------------------------------------------

\* Number of directories of the file system (directory 0 is the start).
NDirs == 3

\* MAX_DEPTH of gtree.h, scaled down from 1024: hard ceiling of -d N and
\* size of the ancestor_siblings array (MAX_DEPTH + 2 slots).
MAX_DEPTH == 3

Dirs == 0 .. (NDirs - 1)
Root == 0
Dev == 0
NoIno == 0 - 1

Identity(d) == <<Dev, d>>

DigitStr == <<"0", "1", "2", "3", "4", "5", "6", "7", "8", "9">>

DirName(d) == <<"d", DigitStr[d + 1]>>
RootPath == <<DirName(Root)>>

\* ------------------------------------------------------------------------
\* The file system (input)
\* ------------------------------------------------------------------------
\* One directory entry with what lstat() and stat() say about it:
\*   lstat_ok : lstat() succeeded
\*   lnk      : S_ISLNK(lst.st_mode)
\*   mode     : type after stat(): "dir", "reg", "other", or "none" when
\*              stat() failed (the code sets st.st_mode = 0)
\*   size     : st.st_size
\*   ino      : the directory stat() resolves to when mode = "dir"
\*   target   : the text readlink() returns
Entry(name, lstat_ok, lnk, mode, size, ino, target) ==
    [name |-> name, lstat_ok |-> lstat_ok, lnk |-> lnk, mode |-> mode,
     size |-> size, ino |-> ino, target |-> target]

F_reg_a    == Entry(<<"a">>, TRUE, FALSE, "reg", 10, NoIno, "")
F_lnk_b    == Entry(<<"b">>, TRUE, TRUE, "reg", 3, NoIno, "a")
F_dangl_c  == Entry(<<"c">>, TRUE, TRUE, "none", 0, NoIno, "nowhere")
F_hidden_s == Entry(<<".", "s">>, TRUE, FALSE, "reg", 5, NoIno, "")
F_sock_o   == Entry(<<"o">>, TRUE, FALSE, "other", 0, NoIno, "")
F_lnksock  == Entry(<<"p">>, TRUE, TRUE, "other", 0, NoIno, "o")
F_gone_g   == Entry(<<"g">>, FALSE, FALSE, "none", 0, NoIno, "")
F_nostat_h == Entry(<<"h">>, TRUE, FALSE, "none", 0, NoIno, "")

\* The file lists a directory can hold.
FileMenu ==
    << <<>>,
       <<F_reg_a, F_lnk_b, F_dangl_c>>,
       <<F_hidden_s, F_sock_o, F_lnksock, F_gone_g, F_nostat_h>> >>

\* Tree shapes: the parent of every directory other than the start.
Shapes == { p \in [1 .. (NDirs - 1) -> Dirs] : \A d \in 1 .. (NDirs - 1) : p[d] < d }

StarShape == [d \in 1 .. (NDirs - 1) |-> Root]

\* At most one symlinked directory: it sits in directory src, resolves to
\* directory tgt and is enumerated before or after the other entries.
NoLink == [src |-> NoIno, tgt |-> NoIno, first |-> FALSE]
LinkChoices ==
    {NoLink} \cup [src : Dirs, tgt : Dirs, first : BOOLEAN]

ParentOf(shape, d) == IF d = Root THEN Root ELSE shape[d]

DotEntries(shape, d) ==
    << Entry(<<".">>, TRUE, FALSE, "dir", 0, d, ""),
       Entry(<<".", ".">>, TRUE, FALSE, "dir", 0, ParentOf(shape, d), "") >>

LinkEntry(link) ==
    Entry(<<"l">>, TRUE, TRUE, "dir", 0, link.tgt, "t" \o DigitStr[link.tgt + 1])

ChildEntries(shape, d) ==
    LET ids  == [i \in 1 .. (NDirs - 1) |-> i]
        kids == SelectSeq(ids, LAMBDA c : shape[c] = d)
    IN  [i \in 1 .. Len(kids) |->
            Entry(DirName(kids[i]), TRUE, FALSE, "dir", 0, kids[i], "")]

\* readdir() order of directory d.
EntriesOf(shape, link, files, d) ==
       DotEntries(shape, d)
    \o (IF link.src = d /\ link.first THEN <<LinkEntry(link)>> ELSE <<>>)
    \o ChildEntries(shape, d)
    \o files[d]
    \o (IF link.src = d /\ ~link.first THEN <<LinkEntry(link)>> ELSE <<>>)

MakeFS(shape, link, files) ==
    [d \in Dirs |-> EntriesOf(shape, link, files, d)]

FixedFiles == [d \in Dirs |-> FileMenu[((d + 1) % 3) + 1]]

\* At most one directory misbehaves: opendir() fails on it, or it has
\* vanished by the time phase 2 calls stat() on it.
NoFault == [noopen |-> {}, nostat |-> {}]
Faults ==
    {NoFault}
    \cup { [noopen |-> {d}, nostat |-> {}] : d \in Dirs \ {Root} }
    \cup { [noopen |-> {}, nostat |-> {d}] : d \in Dirs \ {Root} }

\* ------------------------------------------------------------------------
\* Options (option_parsing.c)
\* ------------------------------------------------------------------------
MinDepth == 2

\* The value of max_depth after parse_options: default_depth without -d,
\* else atoi(optarg) clamped into [2, default_depth].
ParseDepth(has_d, n, default_depth) ==
    IF ~has_d THEN default_depth
    ELSE IF n < MinDepth THEN MinDepth
    ELSE IF n > default_depth THEN default_depth
    ELSE n

\* The widths of int and long, scaled down with MAX_DEPTH.
IntBits == 4
LongBits == 8

\* strtol(optarg, NULL, 10) on the decimal text of n: the value, or
\* LONG_MIN or LONG_MAX when it is out of range.
strtol(n) ==
    IF n < 0 - 2^(LongBits - 1) THEN 0 - 2^(LongBits - 1)
    ELSE IF n > 2^(LongBits - 1) - 1 THEN 2^(LongBits - 1) - 1
    ELSE n

\* atoi(optarg): the long converted to int, which keeps the low bits.
atoi(n) ==
    LET m == strtol(n) % 2^IntBits
    IN  IF m >= 2^(IntBits - 1) THEN m - 2^IntBits ELSE m

\* The integers given to -d.
DepthArgs == (0 - 2^(LongBits - 1) - 1) .. (2^(LongBits - 1) + 1)

Options(md, fl, sh, sf, ss) ==
    [max_depth |-> md, follow_links |-> fl, show_hidden |-> sh,
     show_files |-> sf, show_file_stats |-> ss]

\* *opts = (Options){0}; opts->max_depth = default_depth;
DefaultOptions == Options(MAX_DEPTH, FALSE, FALSE, FALSE, FALSE)

\* The values max_depth takes over all arguments of -d.
DepthValues == {ParseDepth(TRUE, atoi(n), MAX_DEPTH) : n \in DepthArgs}

\* Inputs that vary the tree, the link, the fault and the traversal options
\* (hidden entries are varied by FileConfigs).
StructConfigs ==
    { [fs |-> MakeFS(sh, ln, FixedFiles), fault |-> ft,
       opts |-> Options(md, fl, FALSE, sf, FALSE)] :
        sh \in Shapes, ln \in LinkChoices, ft \in Faults,
        md \in DepthValues, fl \in BOOLEAN, sf \in BOOLEAN }

\* Inputs that vary the files of every directory and the listing options.
FileConfigs ==
    { [fs |-> MakeFS(StarShape, NoLink, fl), fault |-> NoFault,
       opts |-> Options(ParseDepth(FALSE, 0, MAX_DEPTH), FALSE, hid, sf, ss)] :
        fl \in [Dirs -> {FileMenu[i] : i \in 1 .. Len(FileMenu)}],
        hid \in BOOLEAN, sf \in BOOLEAN, ss \in BOOLEAN }

\* A start directory holding directory d1 and a 10-byte regular file, d1
\* holding a symlinked directory that resolves to the start directory.
F_txt  == Entry(<<"f", ".txt">>, TRUE, FALSE, "reg", 10, NoIno, "")
E_A    == Entry(DirName(1), TRUE, FALSE, "dir", 0, 1, "")
E_loop == Entry(<<"loop">>, TRUE, TRUE, "dir", 0, Root, "t0")

LoopFS(file_first) ==
    [d \in Dirs |->
        IF d = Root
        THEN DotEntries(StarShape, d)
             \o (IF file_first THEN <<F_txt, E_A>> ELSE <<E_A, F_txt>>)
        ELSE IF d = 1 THEN DotEntries(StarShape, d) \o <<E_loop>>
        ELSE <<>>]

LoopOptions == Options(ParseDepth(FALSE, 0, MAX_DEPTH), TRUE, FALSE, TRUE, FALSE)

\* A start directory holding a hidden file, a visible file and a hidden
\* directory.
F_secret  == Entry(<<".", "secret">>, TRUE, FALSE, "reg", 5, NoIno, "")
F_visible == Entry(<<"visible", ".txt">>, TRUE, FALSE, "reg", 7, NoIno, "")
E_hdir    == Entry(<<".", "h">>, TRUE, FALSE, "dir", 0, 1, "")

HiddenFS ==
    [d \in Dirs |->
        IF d = Root
        THEN DotEntries(StarShape, d) \o <<F_secret, E_hdir, F_visible>>
        ELSE IF d = 1 THEN DotEntries(StarShape, d)
        ELSE <<>>]

\* A start directory holding d1, d1 holding a directory entry that is not
\* a symlink and has the identity of the start directory (a bind mount),
\* and a symlinked directory that resolves to the start directory.
E_mount == Entry(<<"m">>, TRUE, FALSE, "dir", 0, Root, "")

MountFS ==
    [d \in Dirs |->
        IF d = Root THEN DotEntries(StarShape, d) \o <<E_A>>
        ELSE IF d = 1 THEN DotEntries(StarShape, d) \o <<E_mount, E_loop>>
        ELSE <<>>]

\* Inputs with a fixed file system.
ScenarioConfigs ==
    { [fs |-> LoopFS(ff), fault |-> NoFault, opts |-> LoopOptions] :
        ff \in BOOLEAN }
    \cup
    { [fs |-> HiddenFS, fault |-> NoFault,
       opts |-> Options(ParseDepth(FALSE, 0, MAX_DEPTH), FALSE, hid, sf, FALSE)] :
        hid \in BOOLEAN, sf \in BOOLEAN }
    \cup
    { [fs |-> MountFS, fault |-> NoFault,
       opts |-> Options(ParseDepth(FALSE, 0, MAX_DEPTH), fl, FALSE, FALSE, FALSE)] :
        fl \in BOOLEAN }

\* Inputs whose start directory cannot be opened.
RootFault == [noopen |-> {Root}, nostat |-> {}]

RootFailConfigs ==
    { [fs |-> MakeFS(StarShape, NoLink, FixedFiles), fault |-> RootFault,
       opts |-> Options(ParseDepth(FALSE, 0, MAX_DEPTH), fl, FALSE, sf, FALSE)] :
        fl \in BOOLEAN, sf \in BOOLEAN }

Configs == StructConfigs \cup FileConfigs \cup ScenarioConfigs \cup RootFailConfigs

VARIABLES
    fsys,       \* the file system: directory -> entries in readdir() order
    fault,      \* which directory fails opendir() / the phase-2 stat()
    opts,       \* parsed Options
    stack,      \* stack[1..sp] of DirFrame
    visited,    \* the visited hash (nhash)
    report,     \* final_report
    output,     \* lines printed on stdout, in order
    pc,         \* "start": main() not yet run; "loop": at the while test;
                \* "phase2": after phase 1 of this iteration; "done": after
                \* the summary
    summary,    \* the summary block, empty until it is printed
    entered,    \* history: one record per DirFrame created
    scanned,    \* history: one record per phase-1 scan
    calls,      \* history: one record per call of add_visited()
    closed,     \* history: one record per closedir() of a frame's handle
    status,     \* what main() returned: "none" while it runs, then
                \* "success" or "failure"
    start_given \* first_file_index != -1: the command line names a start
                \* directory

vars == <<fsys, fault, opts, stack, visited, report, output, pc, summary, entered, scanned, calls, closed, status, start_given>>

sp == Len(stack)
Top == stack[Len(stack)]


\* ------------------------------------------------------------------------
\* visit_hash.c
\* ------------------------------------------------------------------------
\* A lookup that never finds the key.
visited_before_NeverFound(set, id) == FALSE

\* visited_before(dev, ino): pure lookup.
visited_before(set, id) == id \in set

\* A put that reports every key as new.
add_visited_absent_Always(set, id) == TRUE

\* A put that stores nothing.
add_visited_set_Drops(set, id) == set

\* A put that drops what the table held.
add_visited_set_Replace(set, id) == {id}

\* add_visited(dev, ino): the set after the put, and whether the key was
\* absent before it.
add_visited_absent(set, id) == id \notin set
add_visited_set(set, id) == set \cup {id}

\* ------------------------------------------------------------------------
\* gtree.c helpers
\* ------------------------------------------------------------------------
\* Depth tracking that stores the current depth without comparing.
track_max_depth_Overwrite(rep, current_depth) ==
    [rep EXCEPT !.TOTAL_depth = current_depth]

\* Depth tracking that counts levels from 1 instead of 0.
track_max_depth_OneBased(rep, current_depth) ==
    IF rep.TOTAL_depth < current_depth + 1
    THEN [rep EXCEPT !.TOTAL_depth = current_depth + 1]
    ELSE rep

track_max_depth(rep, current_depth) ==
    IF rep.TOTAL_depth < current_depth
    THEN [rep EXCEPT !.TOTAL_depth = current_depth]
    ELSE rep

AncIdx == 0 .. (MAX_DEPTH + 1)

\* An opendir() that never fails.
opendir_ok_Always(flt, d) == TRUE

\* opendir() of Create_Frame succeeds.
opendir_ok(flt, d) == d \notin flt.noopen

\* A frame constructor that ignores the depth it is given.
Create_Frame_DepthZero(dirPath, d, dirDepth, parent_as, is_last) ==
    [path |-> dirPath, dir |-> d, depth |-> 0, is_last |-> is_last,
     ancestor_siblings |-> parent_as,
     subdirs |-> <<>>, current |-> 1, subfiles |-> <<>>,
     dir_file_count |-> 0, dir_file_size |-> 0]

\* Create_Frame when opendir() succeeded.  dir stands for the DIR stream:
\* the directory whose entries readdir() returns.  parent_as is the
\* parent's ancestor_siblings, or all FALSE for the root (memset).
Create_Frame(dirPath, d, dirDepth, parent_as, is_last) ==
    [path |-> dirPath, dir |-> d, depth |-> dirDepth, is_last |-> is_last,
     ancestor_siblings |-> parent_as,
     subdirs |-> <<>>, current |-> 1, subfiles |-> <<>>,
     dir_file_count |-> 0, dir_file_size |-> 0]

RootAncestors == [i \in AncIdx |-> FALSE]

\* A list insertion at the head instead of the tail.
add_subdir_AtHead(is_symdir, sub_path, e, list) ==
    <<[path |-> sub_path, is_symlink |-> is_symdir,
       sym_path |-> (IF is_symdir THEN e.target ELSE ""),
       ino |-> e.ino]>> \o list

\* add_subdir: append a SubDirNode at the tail.  ino stands for what
\* stat(n->path) resolves to in phase 2.
add_subdir(is_symdir, sub_path, e, list) ==
    Append(list, [path |-> sub_path, is_symlink |-> is_symdir,
                  sym_path |-> (IF is_symdir THEN e.target ELSE ""),
                  ino |-> e.ino])

\* frame->current == NULL
CurrentIsNull(f) == f.current > Len(f.subdirs)

\* ------------------------------------------------------------------------
\* print.c
\* ------------------------------------------------------------------------
\* add_subfile: the new node becomes the tail, its prev is the old tail.
add_subfile(is_symlink, fname, tail) ==
    <<[name |-> fname, is_symlink |-> is_symlink]>> \o tail

\* The display text HandleFiles builds with snprintf.
FileText(e, kind) ==
    [base |-> e.name, kind |-> kind,
     target |-> (IF e.lnk THEN e.target ELSE ""),
     size |-> (IF kind = "reg" THEN e.size ELSE 0)]

\* Directory-local counting that forgets the size.
CountFileLocal_NoSize(f, e) == [f EXCEPT !.dir_file_count = @ + 1]

\* Directory-local counting that takes the size from the entry itself, so
\* that a link adds nothing of its target.
CountFileLocal_OwnSize(f, e) ==
    [f EXCEPT !.dir_file_count = @ + 1,
              !.dir_file_size = @ + (IF e.lnk THEN 0 ELSE e.size)]

\* Case 1 of HandleFiles on the frame: dir_file_count++ and
\* dir_file_size += st->st_size.
CountFileLocal(f, e) ==
    [f EXCEPT !.dir_file_count = @ + 1, !.dir_file_size = @ + e.size]

\* A file handler that counts every entry that is not a directory.
HandleFiles_CountsOther(e, f, rep, show_files) ==
    IF e.mode = "dir"
    THEN [frame |-> f, report |-> rep]
    ELSE [frame |->
            [CountFileLocal(f, e) EXCEPT
                      !.subfiles =
                          IF show_files
                          THEN add_subfile(e.lnk,
                                 FileText(e, IF e.lnk THEN "link" ELSE "reg"), @)
                          ELSE @],
          report |->
            [rep EXCEPT !.TOTAL_file_count = @ + 1,
                        !.TOTAL_file_size = @ + e.size,
                        !.TOTAL_linked_files = IF e.lnk THEN @ + 1 ELSE @]]

\* HandleFiles(fname, frame, st, lst, report, show_files): the frame and
\* the report after the call.
HandleFiles(e, f, rep, show_files) ==
    LET is_link        == e.lnk
        dangling       == is_link /\ e.mode = "none"
        target_is_dir  == is_link /\ e.mode = "dir"
        target_is_file == is_link /\ e.mode = "reg"
    IN  IF (~is_link /\ e.mode = "reg") \/ target_is_file
        THEN [frame |->
                [CountFileLocal(f, e) EXCEPT
                          !.subfiles =
                              IF show_files
                              THEN add_subfile(is_link,
                                     FileText(e, IF is_link THEN "link" ELSE "reg"), @)
                              ELSE @],
              report |->
                [rep EXCEPT !.TOTAL_file_count = @ + 1,
                            !.TOTAL_file_size = @ + e.size,
                            !.TOTAL_linked_files = IF is_link THEN @ + 1 ELSE @]]
        ELSE IF is_link /\ dangling
        THEN [frame |->
                [f EXCEPT !.dir_file_count = @ + 1,
                          !.subfiles =
                              IF show_files
                              THEN add_subfile(TRUE, FileText(e, "dangling"), @)
                              ELSE @],
              report |->
                [rep EXCEPT !.TOTAL_file_count = @ + 1,
                            !.TOTAL_linked_files = @ + 1]]
        ELSE [frame |-> f, report |-> rep]

\* print_tree_prefix: one glyph per level 1 .. depth-1, TRUE for the
\* vertical bar and FALSE for blanks.
print_tree_prefix(depth, anc) ==
    [i \in 1 .. (IF depth > 1 THEN depth - 1 ELSE 0) |-> anc[i]]

Basename(path) == path[Len(path)]

\* print_entry_line: the line printed.  lead is the connector of a
\* directory line ("last", "mid", or "none" at depth 0) or the indentation
\* of a file line ("blank", "bar", or "none" at depth 0).  owner and src
\* are not printed: they record the frame passed and the call site.
print_entry_line(f, is_last, is_symdir, symPath, is_recursive, entry_name, is_dir, o, src) ==
    [prefix |-> print_tree_prefix(f.depth, f.ancestor_siblings),
     is_dir |-> is_dir,
     lead |-> IF f.depth = 0 THEN "none"
              ELSE IF is_dir THEN (IF is_last THEN "last" ELSE "mid")
              ELSE (IF is_last THEN "blank" ELSE "bar"),
     name |-> IF is_dir THEN Basename(f.path) ELSE entry_name.base,
     text |-> IF is_dir THEN [base |-> Basename(f.path), kind |-> "dir",
                              target |-> "", size |-> 0]
              ELSE entry_name,
     is_symdir |-> is_dir /\ is_symdir,
     sym_path |-> IF is_dir /\ is_symdir THEN symPath ELSE "",
     is_recursive |-> is_dir /\ is_recursive,
     stats |-> is_dir /\ ~is_symdir /\ o.show_file_stats /\ f.dir_file_count > 0,
     fc |-> IF is_dir /\ ~is_symdir /\ o.show_file_stats /\ f.dir_file_count > 0
            THEN f.dir_file_count ELSE 0,
     fs |-> IF is_dir /\ ~is_symdir /\ o.show_file_stats /\ f.dir_file_count > 0
            THEN f.dir_file_size ELSE 0,
     depth |-> f.depth,
     owner |-> f.path,
     src |-> src]


\* ------------------------------------------------------------------------
\* main(): phase 1
\* ------------------------------------------------------------------------
\* A filter that skips "." and ".." only.
Excluded_DotsOnly(e, o) ==
    \/ e.name = <<".">>
    \/ e.name = <<".", ".">>

\* The entry is skipped before lstat(): hidden while hidden entries are
\* not shown, or "." or "..".
Excluded(e, o) ==
    \/ (~o.show_hidden /\ Head(e.name) = ".")
    \/ e.name = <<".">>
    \/ e.name = <<".", ".">>

\* A directory test that takes every symbolic link for a directory.
IsDirEntry_AnyLink(e) == e.mode = "dir" \/ e.lnk

\* The directory test that queues an entry: S_ISDIR(st.st_mode) || is_symdir.
IsDirEntry(e) ==
    LET is_symdir == e.lnk /\ e.mode = "dir"
    IN  e.mode = "dir" \/ is_symdir

\* The body of the readdir() loop for one entry.  acc holds the frame, the
\* report and the SubDirNode list built so far.
ScanEntry(e, acc, o) ==
    IF Excluded(e, o) \/ ~e.lstat_ok
    THEN acc
    ELSE LET h == HandleFiles(e, acc.frame, acc.report, o.show_files)
             is_symdir == e.lnk /\ e.mode = "dir"
         IN  [frame |-> h.frame,
              report |-> h.report,
              head |-> IF IsDirEntry(e)
                       THEN add_subdir(is_symdir, Append(acc.frame.path, e.name),
                                       e, acc.head)
                       ELSE acc.head]

\* while ((entry = readdir(frame->dir)) != NULL): the loop from entry i
\* on.  The accumulator after one entry is bound as a value before the
\* loop goes on with it.
RECURSIVE ScanLoop(_, _, _, _)
ScanLoop(es, i, acc, o) ==
    IF i > Len(es) THEN acc
    ELSE CHOOSE r \in { ScanLoop(es, i + 1, nxt, o) :
                          nxt \in {ScanEntry(es[i], acc, o)} } : TRUE

\* The file lines of phase 1: the walk starts at frame->subfiles and
\* follows prev.
PrintFiles(f, o) ==
    [i \in 1 .. Len(f.subfiles) |->
        print_entry_line(f, f.is_last, f.subfiles[i].is_symlink, "", FALSE,
                         f.subfiles[i].name, FALSE, o, "file")]

NoName == [base |-> <<>>, kind |-> "dir", target |-> "", size |-> 0]

\* A loop test that stops one frame early.
LoopRunning_StopsEarly(s) == Len(s) > 1

\* while (sp > 0)
LoopRunning(s) == Len(s) > 0

\* A guard that lets phase 1 run in every iteration.
Phase1Guard_Always(f) == TRUE

\* Phase 1 runs in this iteration: if (!frame->subdirs).
Phase1Guard(f) == f.subdirs = <<>>

\* Phase 1 printing the file lines ahead of the directory line.
Phase1Lines_FilesFirst(f, o) ==
    (IF o.show_files THEN PrintFiles(f, o) ELSE <<>>)
    \o <<print_entry_line(f, f.is_last, FALSE, "", FALSE, NoName, TRUE, o, "scan")>>

\* What phase 1 prints: the directory line, then the queued file lines.
Phase1Lines(f, o) ==
    <<print_entry_line(f, f.is_last, FALSE, "", FALSE, NoName, TRUE, o, "scan")>>
    \o (IF o.show_files THEN PrintFiles(f, o) ELSE <<>>)

\* A save that starts the iterator at the second node.
SaveList_FromSecond(f, head) == [f EXCEPT !.subdirs = head, !.current = 2]

\* The frame with the SubDirNode list saved to it.
SaveList(f, head) == [f EXCEPT !.subdirs = head, !.current = 1]

Scan ==
    /\ pc = "loop"
    /\ LoopRunning(stack)
    /\ Phase1Guard(Top)
    /\ \E r \in { ScanLoop(fsys[Top.dir], 1,
                           [frame |-> [Top EXCEPT !.dir_file_count = 0,
                                                  !.dir_file_size = 0],
                            report |-> report, head |-> <<>>], opts) } :
       \E f1 \in { SaveList(r.frame, r.head) } :
           /\ stack' = [stack EXCEPT ![Len(stack)] = f1]
           /\ report' = r.report
           /\ output' = output \o Phase1Lines(f1, opts)
           /\ scanned' = Append(scanned,
                            [path |-> f1.path, dir |-> f1.dir,
                             dir_file_count |-> f1.dir_file_count,
                             dir_file_size |-> f1.dir_file_size])
    /\ pc' = "phase2"
    /\ UNCHANGED <<fsys, fault, opts, visited, summary, entered, calls, closed, status, start_given>>

\* ------------------------------------------------------------------------
\* main(): phase 2
\* ------------------------------------------------------------------------
\* Control is at "if (frame->current)": phase 1 has run in this iteration
\* or its guard was false.
AtPhase2 ==
    /\ LoopRunning(stack)
    /\ \/ pc = "phase2"
       \/ pc = "loop" /\ ~Phase1Guard(Top)

\* A depth test that never refuses.
depth_limit_hit_Never(f, o) == FALSE

\* A depth test that lets one more level through.
depth_limit_hit_OffByOne(f, o) == f.depth + 1 > o.max_depth

depth_limit_hit(f, o) == f.depth + 1 >= o.max_depth

\* An advance that leaves the ancestor_siblings array alone.
Advance_NoSiblingFlag(f, o) == [f EXCEPT !.current = f.current + 1]

\* The frame after "advance iterator" and the ancestor_siblings update.
Advance(f, o) ==
    LET nxt == f.current + 1
        is_last_child == nxt > Len(f.subdirs)
    IN  [f EXCEPT !.current = nxt,
                  !.ancestor_siblings =
                      IF f.depth + 1 < o.max_depth
                      THEN [@ EXCEPT ![f.depth + 1] = ~is_last_child]
                      ELSE @]

\* The temporary frame built for printing a child that is not entered.
TempFrame(cur, f) ==
    [path |-> cur.path, dir |-> NoIno, depth |-> f.depth + 1, is_last |-> FALSE,
     ancestor_siblings |-> f.ancestor_siblings,
     subdirs |-> <<>>, current |-> 1, subfiles |-> <<>>,
     dir_file_count |-> 0, dir_file_size |-> 0]

\* stat(cur->path, &st_target) == 0
stat_ok(flt, cur) == cur.ino \notin flt.nostat

\* A registration that never counts the directory.
Register_Never(rep, set, id) == rep

\* A registration that counts the directory whatever add_visited returns.
Register_Always(rep, set, id) == [rep EXCEPT !.TOTAL_directories = @ + 1]

\* Registration of an entered or counted directory: add_visited() and the
\* increment of TOTAL_directories when the identity was absent.
Register(rep, set, id) ==
    IF add_visited_absent(set, id)
    THEN [rep EXCEPT !.TOTAL_directories = @ + 1]
    ELSE rep

\* A traverse condition that does not look at follow_links.
SymlinkTraversed_IgnoresFollow(already_visited, o, ok, limit) ==
    ~already_visited /\ ok /\ ~limit

\* The condition under which a symlinked directory is traversed.
SymlinkTraversed(already_visited, o, ok, limit) ==
    ~already_visited /\ o.follow_links /\ ok /\ ~limit

\* A traverse condition that does not look at the depth limit.
DirTraversed_IgnoresLimit(already_visited, limit) == ~already_visited

\* The condition under which a plain directory is traversed.
DirTraversed(already_visited, limit) ==
    ~already_visited /\ ~limit

\* Linked-directory counting that ignores the result of stat().
CountLinked_Always(rep, ok) == [rep EXCEPT !.TOTAL_linked_directories = @ + 1]

\* if (stat_ok) final_report.TOTAL_linked_directories++;
CountLinked(rep, ok) ==
    IF ok THEN [rep EXCEPT !.TOTAL_linked_directories = @ + 1] ELSE rep

\* One call of add_visited(): its argument, what it returns, and the call
\* site ("root", "symlink", "dir" for a directory being entered, "refused"
\* for a plain directory that is printed instead of entered).
AddVisitedCall(set, id, site) ==
    [id |-> id, absent |-> add_visited_absent(set, id), site |-> site]

EnteredRecord(child) ==
    [path |-> child.path, dir |-> child.dir, depth |-> child.depth]

DrainSymlink ==
    /\ AtPhase2
    /\ ~CurrentIsNull(Top)
    /\ Top.subdirs[Top.current].is_symlink
    /\ LET cur   == Top.subdirs[Top.current]
           f     == Advance(Top, opts)
           is_last_child == CurrentIsNull(f)
           ok    == stat_ok(fault, cur)
           id    == Identity(cur.ino)
           already_visited == ok /\ visited_before(visited, id)
           line  == print_entry_line(TempFrame(cur, f), is_last_child, TRUE,
                                     cur.sym_path, already_visited, NoName,
                                     TRUE, opts, "drain")
           rep1  == CountLinked(report, ok)
           limit == depth_limit_hit(f, opts)
           child == Create_Frame(cur.path, cur.ino, f.depth + 1,
                                 f.ancestor_siblings, is_last_child)
       IN  /\ output' = Append(output, line)
           /\ IF SymlinkTraversed(already_visited, opts, ok, limit)
              THEN IF opendir_ok(fault, cur.ino)
                   THEN /\ stack' = Append([stack EXCEPT ![Len(stack)] = f], child)
                        /\ visited' = add_visited_set(visited, id)
                        /\ report' = track_max_depth(Register(rep1, visited, id),
                                                     child.depth)
                        /\ entered' = Append(entered, EnteredRecord(child))
                        /\ calls' = Append(calls, AddVisitedCall(visited, id, "symlink"))
                   ELSE /\ stack' = [stack EXCEPT ![Len(stack)] = f]
                        /\ report' = rep1
                        /\ UNCHANGED <<visited, entered, calls>>
              ELSE /\ stack' = [stack EXCEPT ![Len(stack)] = f]
                   /\ report' = IF ~already_visited /\ limit
                                THEN track_max_depth(rep1, f.depth + 1)
                                ELSE rep1
                   /\ UNCHANGED <<visited, entered, calls>>
    /\ pc' = "loop"
    /\ UNCHANGED <<fsys, fault, opts, summary, scanned, closed, status, start_given>>

DrainDir ==
    /\ AtPhase2
    /\ ~CurrentIsNull(Top)
    /\ ~Top.subdirs[Top.current].is_symlink
    /\ LET cur   == Top.subdirs[Top.current]
           f     == Advance(Top, opts)
           is_last_child == CurrentIsNull(f)
           ok    == stat_ok(fault, cur)
           id    == Identity(cur.ino)
           already_visited == visited_before(visited, id)
           limit == depth_limit_hit(f, opts)
           child == Create_Frame(cur.path, cur.ino, f.depth + 1,
                                 f.ancestor_siblings, is_last_child)
           line  == print_entry_line(TempFrame(cur, f), is_last_child, FALSE,
                                     "", already_visited, NoName, TRUE, opts,
                                     "drain")
       IN  IF ~ok
           THEN /\ stack' = [stack EXCEPT ![Len(stack)] = f]
                /\ UNCHANGED <<visited, report, output, entered, calls>>
           ELSE IF DirTraversed(already_visited, limit)
           THEN IF opendir_ok(fault, cur.ino)
                THEN /\ stack' = Append([stack EXCEPT ![Len(stack)] = f], child)
                     /\ visited' = add_visited_set(visited, id)
                     /\ report' = track_max_depth(Register(report, visited, id),
                                                  child.depth)
                     /\ entered' = Append(entered, EnteredRecord(child))
                     /\ calls' = Append(calls, AddVisitedCall(visited, id, "dir"))
                     /\ UNCHANGED output
                ELSE /\ stack' = [stack EXCEPT ![Len(stack)] = f]
                     /\ UNCHANGED <<visited, report, output, entered, calls>>
           ELSE /\ stack' = [stack EXCEPT ![Len(stack)] = f]
                /\ output' = Append(output, line)
                /\ visited' = add_visited_set(visited, id)
                /\ report' = track_max_depth(Register(report, visited, id),
                                             f.depth + 1)
                /\ calls' = Append(calls, AddVisitedCall(visited, id, "refused"))
                /\ UNCHANGED entered
    /\ pc' = "loop"
    /\ UNCHANGED <<fsys, fault, opts, summary, scanned, closed, status, start_given>>

\* A pop that never closes the directory stream.
closedir_Leaks(cl, f) == cl

\* closedir(frame->dir): the stream opened for the frame at f.path is
\* closed.
closedir(cl, f) == Append(cl, f.path)

\* Directory fully processed: closedir, free, sp--.
Pop ==
    /\ AtPhase2
    /\ CurrentIsNull(Top)
    /\ closed' = closedir(closed, Top)
    /\ stack' = SubSeq(stack, 1, Len(stack) - 1)
    /\ pc' = "loop"
    /\ UNCHANGED <<fsys, fault, opts, visited, report, output, summary, entered, scanned, calls, status, start_given>>

\* The summary block printed after the loop.
Summary(rep, o) ==
    [directories |-> rep.TOTAL_directories,
     linked_directories |-> rep.TOTAL_linked_directories,
     depth |-> rep.TOTAL_depth,
     files_shown |-> o.show_file_stats \/ o.show_files,
     file_count |-> IF o.show_file_stats \/ o.show_files
                    THEN rep.TOTAL_file_count ELSE 0,
     linked_files |-> IF o.show_file_stats \/ o.show_files
                      THEN rep.TOTAL_linked_files ELSE 0,
     file_size |-> IF o.show_file_stats \/ o.show_files
                   THEN rep.TOTAL_file_size ELSE 0]

\* The loop test fails: the visited hash is freed (and never read again)
\* and the summary is printed.
Finish ==
    /\ pc = "loop"
    /\ ~LoopRunning(stack)
    /\ summary' = <<Summary(report, opts)>>
    /\ pc' = "done"
    /\ status' = "success"
    /\ UNCHANGED <<fsys, fault, opts, stack, visited, report, output, entered, scanned, calls, closed, start_given>>

\* ------------------------------------------------------------------------
\* Specification
\* ------------------------------------------------------------------------
ZeroReport ==
    [TOTAL_file_count |-> 0, TOTAL_linked_files |-> 0, TOTAL_file_size |-> 0,
     TOTAL_directories |-> 0, TOTAL_linked_directories |-> 0, TOTAL_depth |-> 0]

RootFrame == Create_Frame(RootPath, Root, 0, RootAncestors, FALSE)

\* Before main() runs: nothing parsed, nothing read, nothing printed.
EmptyFS == [d \in Dirs |-> <<>>]

Init ==
    /\ pc = "start"
    /\ fsys = EmptyFS
    /\ fault = NoFault
    /\ opts = DefaultOptions
    /\ stack = <<>>
    /\ visited = {}
    /\ report = ZeroReport
    /\ output = <<>>
    /\ summary = <<>>
    /\ entered = <<>>
    /\ scanned = <<>>
    /\ calls = <<>>
    /\ closed = <<>>
    /\ status = "none"
    /\ start_given = FALSE

\* A validation of the start directory that lets every path through.
RootRejected_Never(c) == FALSE

\* if (valid_start == NULL): the start directory cannot be opened.
RootRejected(c) == ~opendir_ok(c.fault, Root)

\* A start that leaves the root identity out of the visited hash.
RegisterRoot_Skipped(set) == set

\* if (stat(root->path, &st_root) == 0) add_visited(...): stat() of the
\* directory that opendir() has just opened succeeds.
RegisterRoot(set) == add_visited_set(set, Identity(Root))

RootCalls(set) == <<AddVisitedCall(set, Identity(Root), "root")>>

\* main() up to the traversal loop, for one input: options parsed, start
\* directory validated, visited hash created, root frame pushed and the
\* root identity registered.
Start ==
    /\ pc = "start"
    /\ \E c \in Configs :
          /\ ~RootRejected(c)
          /\ fsys' = c.fs
          /\ fault' = c.fault
          /\ opts' = c.opts
    /\ stack' = <<RootFrame>>
    /\ visited' = RegisterRoot(visited)
    /\ calls' = RootCalls(visited)
    /\ report' = ZeroReport
    /\ entered' = <<EnteredRecord(RootFrame)>>
    /\ pc' = "loop"
    /\ start_given' = TRUE
    /\ UNCHANGED <<output, summary, scanned, closed, status>>

\* main() when opendir() of the start directory fails: the message goes
\* to stderr and main returns EXIT_FAILURE before the report, the stack
\* and the visited hash exist.
RootFails ==
    /\ pc = "start"
    /\ \E c \in Configs :
          /\ RootRejected(c)
          /\ fsys' = c.fs
          /\ fault' = c.fault
          /\ opts' = c.opts
    /\ pc' = "done"
    /\ status' = "failure"
    /\ start_given' = TRUE
    /\ UNCHANGED <<stack, visited, report, output, summary, entered, scanned, calls, closed>>

\* main() when no start directory is named: first_file_index is -1 and
\* main returns EXIT_FAILURE after the message on stderr.
NoStartDir ==
    /\ pc = "start"
    /\ pc' = "done"
    /\ status' = "failure"
    /\ UNCHANGED <<fsys, fault, opts, stack, visited, report, output, summary, entered, scanned, calls, closed, start_given>>

Next ==
    \/ Start
    \/ NoStartDir
    \/ RootFails
    \/ Scan
    \/ DrainSymlink
    \/ DrainDir
    \/ Pop
    \/ Finish

Spec == Init /\ [][Next]_vars

\* One iteration of the traversal loop, or the code after it.
LoopStep == Scan \/ DrainSymlink \/ DrainDir \/ Pop \/ Finish

\* The loop is the only thread of control: once main is running, a step
\* that can be taken is taken.
FairSpec == Spec /\ WF_vars(LoopStep)


\* ------------------------------------------------------------------------
\* Properties
\* ------------------------------------------------------------------------
LastLine == output[Len(output)]

\* The SubDirNode phase 2 is about to take.
CurrentNode == Top.subdirs[Top.current]

\* C1: for every file system of the model, with or without a symlinked
\* directory that resolves to an ancestor or to the root, and for every
\* option setting, the traversal loop, once entered, eventually reaches
\* the empty stack and the run ends.
C1_Terminates == (pc = "loop") ~> (pc = "done" /\ Len(stack) = 0)

\* A run that met a symlinked directory resolving to an entered directory
\* has ended with the empty stack.
C1_Witness ==
    /\ pc = "done"
    /\ Len(stack) = 0
    /\ \E i \in DOMAIN output : output[i].is_symdir /\ output[i].is_recursive

\* C2: when a symlinked directory is drained and the identity it resolves
\* to is already in the visited set, the step prints exactly one line, the
\* line is the symlink's and carries the recursive marker, and no frame is
\* pushed.
C2_VisitedSymlinkOneLineNoPush ==
    [][ ( /\ AtPhase2
          /\ ~CurrentIsNull(Top)
          /\ CurrentNode.is_symlink
          /\ CurrentNode.ino \notin fault.nostat
          /\ Identity(CurrentNode.ino) \in visited )
        => ( /\ Len(output') = Len(output) + 1
             /\ SubSeq(output', 1, Len(output)) = output
             /\ output'[Len(output')].is_symdir
             /\ output'[Len(output')].is_recursive
             /\ output'[Len(output')].owner = CurrentNode.path
             /\ Len(stack') = Len(stack)
             /\ entered' = entered ) ]_vars

\* A symlinked directory that resolves to the root has just been drained
\* with link following enabled.
C2_Witness ==
    /\ Len(output) > 0
    /\ LastLine.is_symdir
    /\ LastLine.is_recursive
    /\ LastLine.sym_path = "t0"
    /\ opts.follow_links
    /\ pc = "loop"

\* C5: no frame on the stack, and no frame ever created, has a depth of
\* max_depth or more.
C5_NoFrameAtOrBeyondMaxDepth ==
    /\ \A i \in DOMAIN stack : stack[i].depth < opts.max_depth
    /\ \A i \in DOMAIN entered : entered[i].depth < opts.max_depth

\* A plain directory and a symlinked directory that link following would
\* have entered have both been refused at depth max_depth.
C5_Witness ==
    /\ \E i \in DOMAIN output :
          /\ output[i].src = "drain"
          /\ ~output[i].is_symdir
          /\ ~output[i].is_recursive
          /\ output[i].depth = opts.max_depth
    /\ \E i \in DOMAIN output :
          /\ output[i].src = "drain"
          /\ output[i].is_symdir
          /\ ~output[i].is_recursive
          /\ output[i].depth = opts.max_depth
          /\ opts.follow_links
          /\ fault = NoFault

\* C6 as claimed: the reported maximum depth never exceeds max_depth - 1.
C6_Claimed == report.TOTAL_depth <= opts.max_depth - 1

\* C6 amended: the reported maximum depth never exceeds max_depth.
C6_DepthAtMostMaxDepth == report.TOTAL_depth <= opts.max_depth

\* The reported maximum depth has reached max_depth.
C6_Witness == report.TOTAL_depth = opts.max_depth


\* ------------------------------------------------------------------------
\* The file system as the properties see it
\* ------------------------------------------------------------------------
\* An entry the walk looks at: lstat() works on it, it is not "." or ".."
\* and it is not hidden while hidden entries are suppressed.
VisibleEntry(e) ==
    /\ e.lstat_ok
    /\ e.name \notin {<<".">>, <<".", ".">>}
    /\ (opts.show_hidden \/ Head(e.name) # ".")

\* A directory or a symlink to a directory.
DirLike(e) == VisibleEntry(e) /\ e.mode = "dir"

\* A regular file, a symlink to one, or a dangling symlink.
FileLike(e) ==
    /\ VisibleEntry(e)
    /\ \/ ~e.lnk /\ e.mode = "reg"
       \/ e.lnk /\ e.mode \in {"reg", "none"}

NamesOf(es) == [i \in 1 .. Len(es) |-> es[i].name]

DirNamesEnumerated(d) == NamesOf(SelectSeq(fsys[d], DirLike))
FileNamesEnumerated(d) == NamesOf(SelectSeq(fsys[d], FileLike))

EntrySet(d) == {fsys[d][i] : i \in DOMAIN fsys[d]}

\* The directories an entry of d leads to, symlinked or not.
AllEdges == [d \in Dirs |-> {e.ino : e \in {x \in EntrySet(d) : DirLike(x)}}]

\* The directories the walk goes to from d under the options.
TravEdges ==
    [d \in Dirs |->
        {e.ino : e \in {x \in EntrySet(d) :
                           DirLike(x) /\ (~x.lnk \/ opts.follow_links)}}]

RECURSIVE Closure(_, _)
Closure(E, S) ==
    LET T == S \cup UNION {E[d] : d \in S}
    IN  IF T = S THEN S ELSE Closure(E, T)

\* Some directory leads back to itself through entries and symlinks.
HasSymlinkCycle == \E d \in Dirs : d \in Closure(AllEdges, AllEdges[d])

SetMax(S) == CHOOSE m \in S : \A x \in S : x <= m

\* Longest chain of traversal edges below d (for a file system without cycle).
RECURSIVE Height(_, _)
Height(E, d) ==
    IF E[d] = {} THEN 0 ELSE 1 + SetMax({Height(E, c) : c \in E[d]})

FramesCreatedFor(d) == {i \in DOMAIN entered : entered[i].dir = d}
ScansOf(d) == {i \in DOMAIN scanned : scanned[i].dir = d}

ParentPath(p) == SubSeq(p, 1, Len(p) - 1)

\* The line is the line of a directory entry of the directory at path P.
IsChildLine(l, P) ==
    l.is_dir /\ Len(l.owner) = Len(P) + 1 /\ ParentPath(l.owner) = P

\* The line belongs to something strictly below the directory at path P.
IsBelow(l, P) ==
    Len(l.owner) > Len(P) /\ SubSeq(l.owner, 1, Len(P)) = P

IsFileLineOf(l, P) == ~l.is_dir /\ l.owner = P

IndexIn(names, n) == CHOOSE i \in 1 .. Len(names) : names[i] = n

RECURSIVE SumSeq(_, _)
SumSeq(f, i) == IF i = 0 THEN 0 ELSE f[i] + SumSeq(f, i - 1)

\* ------------------------------------------------------------------------
\* Properties, continued
\* ------------------------------------------------------------------------

\* C3: in a walk that has ended on a file system without symlink cycles,
\* with every directory openable and resolvable and the depth bound out of
\* reach, every directory reachable from the root has had exactly one frame
\* created for it and has been scanned exactly once.
C3_EachReachableEnteredOnce ==
    ( /\ pc = "done"
      /\ status = "success"
      /\ ~HasSymlinkCycle
      /\ fault = NoFault
      /\ Height(TravEdges, Root) < opts.max_depth )
    => \A d \in Closure(TravEdges, {Root}) :
          /\ Cardinality(FramesCreatedFor(d)) = 1
          /\ Cardinality(ScansOf(d)) = 1

\* Such a run has ended after reaching every directory, one of them a
\* second time through another name.
C3_Witness ==
    /\ pc = "done"
    /\ ~HasSymlinkCycle
    /\ fault = NoFault
    /\ Height(TravEdges, Root) < opts.max_depth
    /\ Closure(TravEdges, {Root}) = Dirs
    /\ \E i \in DOMAIN output : output[i].is_recursive

\* C4 as claimed: at the end of the run the reported directory total equals
\* the number of distinct directories a frame was created for, the root
\* included.
C4_Claimed ==
    pc = "done" =>
        report.TOTAL_directories = Cardinality({entered[i].dir : i \in DOMAIN entered})

\* C7: at the end of the run the directory-local file counts of the scanned
\* frames add up to TOTAL_file_count and their directory-local sizes add up
\* to TOTAL_file_size.
C7_LocalTotalsAddUp ==
    pc = "done" =>
        /\ SumSeq([i \in DOMAIN scanned |-> scanned[i].dir_file_count],
                  Len(scanned)) = report.TOTAL_file_count
        /\ SumSeq([i \in DOMAIN scanned |-> scanned[i].dir_file_size],
                  Len(scanned)) = report.TOTAL_file_size

\* A run has ended with files counted in two directories, one of them a
\* dangling symlink and one a file with a size.
C7_Witness ==
    /\ pc = "done"
    /\ Cardinality({i \in DOMAIN scanned : scanned[i].dir_file_count > 0}) >= 2
    /\ report.TOTAL_linked_files > 0
    /\ report.TOTAL_file_size > 0
    /\ report.TOTAL_file_count > report.TOTAL_linked_files

\* C8: the directory entries of a scanned directory are queued in
\* enumeration order, their lines come out in that order, and a line has
\* the last-sibling connector exactly when it is the line of the last
\* directory entry enumerated.
C8_ChildrenInEnumerationOrder ==
    /\ \A s \in DOMAIN stack :
          stack[s].subdirs # <<>> =>
              [i \in 1 .. Len(stack[s].subdirs) |->
                  Basename(stack[s].subdirs[i].path)]
              = DirNamesEnumerated(stack[s].dir)
    /\ \A k \in DOMAIN scanned :
          LET P     == scanned[k].path
              names == DirNamesEnumerated(scanned[k].dir)
          IN  \A i \in DOMAIN output :
                IsChildLine(output[i], P) =>
                  /\ \E a \in 1 .. Len(names) : names[a] = output[i].name
                  /\ (output[i].lead = "last") <=> (output[i].name = names[Len(names)])
                  /\ \A j \in DOMAIN output :
                        ( /\ IsChildLine(output[j], P)
                          /\ IndexIn(names, output[i].name)
                               < IndexIn(names, output[j].name) )
                        => i < j

\* A run has ended after printing the lines of three directory entries of
\* one directory.
C8_Witness ==
    /\ pc = "done"
    /\ \E k \in DOMAIN scanned :
          /\ Len(DirNamesEnumerated(scanned[k].dir)) = 3
          /\ \A a \in 1 .. 3 :
                \E i \in DOMAIN output :
                    /\ IsChildLine(output[i], scanned[k].path)
                    /\ output[i].name = DirNamesEnumerated(scanned[k].dir)[a]

\* C9 as claimed: with file listing on, the file lines of a directory are
\* printed in the order its files were enumerated.
C9_Claimed ==
    opts.show_files =>
        \A k \in DOMAIN scanned :
            NamesOf(SelectSeq(output,
                        LAMBDA l : IsFileLineOf(l, scanned[k].path)))
            = FileNamesEnumerated(scanned[k].dir)

\* C10: for every scanned directory the output holds exactly one directory
\* line printed by its scan, immediately followed by all of its file lines
\* and by no other file line of it; every line of an entry below it comes
\* after these; and a frame exists only for a directory whose parent frame
\* has been scanned.
C10_PreOrder ==
    /\ \A k \in DOMAIN scanned :
          LET P == scanned[k].path
              fnames == FileNamesEnumerated(scanned[k].dir)
              n == IF opts.show_files THEN Len(fnames) ELSE 0
          IN  \E idx \in DOMAIN output :
                /\ output[idx].src = "scan"
                /\ output[idx].owner = P
                /\ \A j \in DOMAIN output :
                      (output[j].src = "scan" /\ output[j].owner = P) => j = idx
                /\ idx + n <= Len(output)
                /\ \A j \in (idx + 1) .. (idx + n) : IsFileLineOf(output[j], P)
                /\ {output[j].name : j \in (idx + 1) .. (idx + n)}
                     = {fnames[a] : a \in 1 .. n}
                /\ \A j \in DOMAIN output :
                      IsFileLineOf(output[j], P) => j \in (idx + 1) .. (idx + n)
                /\ \A j \in DOMAIN output :
                      IsBelow(output[j], P) => j > idx + n
    /\ \A i \in DOMAIN entered :
          Len(entered[i].path) > 1 =>
              \E k \in DOMAIN scanned : scanned[k].path = ParentPath(entered[i].path)

\* A directory with three file lines has a child frame on the stack that
\* has printed its own line.
C10_Witness ==
    /\ opts.show_files
    /\ Len(stack) = 2
    /\ Len(FileNamesEnumerated(stack[1].dir)) = 3
    /\ \E i \in DOMAIN output : output[i].src = "scan" /\ output[i].owner = stack[2].path

\* The run on the start directory with d1, f.txt and d1/loop has ended.
LoopScenarioDone ==
    /\ pc = "done"
    /\ fsys \in {LoopFS(TRUE), LoopFS(FALSE)}
    /\ opts = LoopOptions

\* The four lines of that run: the start directory without connector, the
\* file, d1 as last sibling, the symlink marked recursive; and no frame
\* for the symlink.
LoopScenarioOutput ==
    /\ Len(output) = 4
    /\ output[1].is_dir /\ output[1].name = Basename(RootPath)
    /\ output[1].lead = "none"
    /\ ~output[2].is_dir /\ output[2].name = F_txt.name
    /\ output[2].text.size = 10
    /\ output[3].is_dir /\ ~output[3].is_symdir
    /\ output[3].name = DirName(1) /\ output[3].lead = "last"
    /\ output[4].is_symdir /\ output[4].name = <<"loop">>
    /\ output[4].is_recursive
    /\ Len(entered) = 2
    /\ \A i \in DOMAIN entered : Basename(entered[i].path) # <<"loop">>

\* C11 as claimed: in that run the output is those four lines in that
\* order, no frame is pushed for the symlink, and the summary reports 2
\* directories traversed, 1 linked directory, 1 file and 10 bytes.
C11_Claimed ==
    LoopScenarioDone =>
        /\ LoopScenarioOutput
        /\ summary[1].directories = 2
        /\ summary[1].linked_directories = 1
        /\ summary[1].file_count = 1
        /\ summary[1].file_size = 10

\* The name is "." or "..", or it begins with '.' while hidden entries
\* are suppressed.
NameFilteredOut(n) ==
    \/ n \in {<<".">>, <<".", ".">>}
    \/ ~opts.show_hidden /\ Head(n) = "."

SizesOf(es) == [i \in 1 .. Len(es) |-> es[i].size]

\* C12: no output line and no queued child has a name that is ".", ".."
\* or, with show-hidden off, begins with '.'; the file counters of a
\* scanned directory count exactly its entries that pass this filter and
\* are files, so a hidden entry changes them only when hidden entries are
\* shown; and a start directory holding .secret, visible.txt and a hidden
\* directory ends with TOTAL_file_count 1 and one frame when hidden
\* entries are suppressed, 2 and two frames when they are shown.
C12_HiddenExcludedBeforeClassification ==
    /\ \A i \in DOMAIN output : ~NameFilteredOut(output[i].name)
    /\ \A s \in DOMAIN stack : \A j \in DOMAIN stack[s].subdirs :
          ~NameFilteredOut(Basename(stack[s].subdirs[j].path))
    /\ \A k \in DOMAIN scanned :
          LET files == SelectSeq(fsys[scanned[k].dir], FileLike)
          IN  /\ scanned[k].dir_file_count = Len(files)
              /\ scanned[k].dir_file_size = SumSeq(SizesOf(files), Len(files))
    /\ (pc = "done" /\ fsys = HiddenFS) =>
          /\ report.TOTAL_file_count = (IF opts.show_hidden THEN 2 ELSE 1)
          /\ report.TOTAL_file_size = (IF opts.show_hidden THEN 12 ELSE 7)
          /\ Len(entered) = (IF opts.show_hidden THEN 2 ELSE 1)

\* The run on the directory with .secret and visible.txt has ended with
\* hidden entries suppressed and files listed: one file counted, the
\* directory line and one file line printed.
C12_Witness ==
    /\ pc = "done"
    /\ fsys = HiddenFS
    /\ ~opts.show_hidden
    /\ opts.show_files
    /\ report.TOTAL_file_count = 1
    /\ Len(output) = 2

\* The identities add_visited() has been called with so far.
InsertedIds == {calls[i].id : i \in DOMAIN calls}

AllIdentities == {Identity(d) : d \in Dirs}

\* C13: every call of add_visited returned true exactly when no earlier
\* call had the same identity, and the set holds exactly the identities
\* of the calls made, so a call that returned false left it unchanged;
\* visited_before answers true exactly for the identities inserted by a
\* call; and a step without a call of add_visited leaves the set as it
\* was, whatever lookups it made.
C13_AddVisitedContract ==
    /\ [](/\ visited = InsertedIds
          /\ \A i \in DOMAIN calls :
                calls[i].absent = (\A j \in 1 .. (i - 1) : calls[j].id # calls[i].id)
          /\ \A id \in AllIdentities :
                visited_before(visited, id) <=> id \in InsertedIds)
    /\ [][ /\ (calls' = calls => visited' = visited)
           /\ (calls' # calls =>
                 /\ Len(calls') = Len(calls) + 1
                 /\ LET c == calls'[Len(calls')]
                    IN  /\ c.absent = (c.id \notin visited)
                        /\ visited' = visited \cup {c.id}
                        /\ ~c.absent => visited' = visited) ]_vars

\* add_visited has returned true for a directory other than the root and
\* false for an identity that was already in the set.
C13_Witness ==
    /\ \E i \in DOMAIN calls : i > 1 /\ calls[i].absent
    /\ \E i \in DOMAIN calls : ~calls[i].absent

EnteredIds == {Identity(entered[i].dir) : i \in DOMAIN entered}

\* The identities first registered by the branch that prints a plain
\* directory instead of entering it.
RefusedNewIds ==
    {calls[i].id : i \in {j \in DOMAIN calls :
                            calls[j].site = "refused" /\ calls[j].absent}}

\* C15 as claimed: in every state the visited set holds exactly the
\* identities of the directories that have been entered.
C15_Claimed == visited = EnteredIds

\* What the set holds instead: the identity of every entered directory,
\* and besides these exactly the identities of the plain directories that
\* were printed instead of entered while their identity was new.
VisitedIsEnteredOrRefused ==
    /\ EnteredIds \subseteq visited
    /\ visited \ EnteredIds = RefusedNewIds
    /\ RefusedNewIds \cap EnteredIds = {}

\* The step drains a symlinked-directory child.
DrainsSymlink == AtPhase2 /\ ~CurrentIsNull(Top) /\ CurrentNode.is_symlink

\* The step drains a child that is not a symlink.
DrainsPlain == AtPhase2 /\ ~CurrentIsNull(Top) /\ ~CurrentNode.is_symlink

\* About the child being drained: stat() on it succeeds; its identity is
\* not in the visited set; its depth is below the maximum; opendir() on
\* it succeeds.
Resolves == CurrentNode.ino \notin fault.nostat
IdentityNew == Identity(CurrentNode.ino) \notin visited
DepthAllows == Top.depth + 1 < opts.max_depth
Opens == CurrentNode.ino \notin fault.noopen

\* The step pushes a frame for the child being drained.
PushesChild ==
    /\ Len(stack') = Len(stack) + 1
    /\ stack'[Len(stack')].path = CurrentNode.path
    /\ stack'[Len(stack')].dir = CurrentNode.ino
    /\ stack'[Len(stack')].depth = Top.depth + 1
    /\ entered' = Append(entered, [path |-> CurrentNode.path,
                                   dir |-> CurrentNode.ino,
                                   depth |-> Top.depth + 1])

\* The step pushes nothing and creates no frame.
PushesNothing == Len(stack') = Len(stack) /\ entered' = entered

\* What a descent does besides the push: the identity is registered, the
\* directory total grows by one only if the registration was new, and the
\* maximum depth covers the child's depth.
DescentBookkeeping ==
    /\ visited' = visited \cup {Identity(CurrentNode.ino)}
    /\ report'.TOTAL_directories =
          report.TOTAL_directories + (IF IdentityNew THEN 1 ELSE 0)
    /\ report'.TOTAL_depth = SetMax({report.TOTAL_depth, Top.depth + 1})

\* C16 as claimed: a drained symlinked directory gets a frame pushed if
\* and only if resolution succeeded, the identity was new, follow_links is
\* on and depth+1 is below the maximum.
C16_Claimed ==
    [][ DrainsSymlink =>
          (PushesChild <=>
             (Resolves /\ IdentityNew /\ opts.follow_links /\ DepthAllows))
      ]_vars

\* C16: a drained symlinked directory gets a frame pushed, with the
\* identity registered, the directory total incremented if the
\* registration was new and the maximum depth updated, if and only if
\* resolution succeeded, the identity was new, follow_links is on, depth+1
\* is below the maximum and the directory can be opened; otherwise nothing
\* is pushed and the visited set and the directory total are unchanged.
C16_SymlinkPushedIffFiveHold ==
    [][ DrainsSymlink =>
          /\ PushesChild <=>
               (Resolves /\ IdentityNew /\ opts.follow_links /\ DepthAllows /\ Opens)
          /\ PushesChild => DescentBookkeeping
          /\ ~PushesChild =>
               /\ PushesNothing
               /\ visited' = visited
               /\ report'.TOTAL_directories = report.TOTAL_directories
      ]_vars

\* A frame for a symlinked directory has just been pushed.
C16_Witness ==
    /\ pc = "loop"
    /\ Len(stack) >= 2
    /\ Len(output) > 0
    /\ LastLine.is_symdir
    /\ ~LastLine.is_recursive
    /\ LastLine.owner = Top.path
    /\ Phase1Guard(Top)
    /\ Top.path = entered[Len(entered)].path

\* The step prints exactly one line, and it is the line of the child
\* being drained.
PrintsChildLine ==
    /\ Len(output') = Len(output) + 1
    /\ SubSeq(output', 1, Len(output)) = output
    /\ output'[Len(output')].is_dir
    /\ output'[Len(output')].owner = CurrentNode.path
    /\ output'[Len(output')].name = Basename(CurrentNode.path)

\* C17: a step that drains a symlinked directory prints exactly one line,
\* the symlink's with its target, and adds one to TOTAL_linked_directories
\* if resolution succeeded and nothing if it failed, whether or not a
\* frame is pushed.
C17_SymlinkLineAndLinkedTotal ==
    [][ DrainsSymlink =>
          /\ PrintsChildLine
          /\ output'[Len(output')].is_symdir
          /\ output'[Len(output')].sym_path = CurrentNode.sym_path
          /\ report'.TOTAL_linked_directories =
                report.TOTAL_linked_directories + (IF Resolves THEN 1 ELSE 0)
      ]_vars

\* A run has ended in which a symlinked directory that could not be
\* resolved was printed and not counted.
C17_Witness ==
    /\ pc = "done"
    /\ fault.nostat # {}
    /\ \E i \in DOMAIN output : output[i].is_symdir
    /\ report.TOTAL_linked_directories = 0

\* C18 as claimed: a drained plain directory that resolves gets a frame
\* pushed if its identity is new and depth+1 is below the maximum;
\* otherwise nothing is pushed and exactly one line is printed for it,
\* marked recursive exactly when its identity was already in the set.
C18_Claimed ==
    [][ (DrainsPlain /\ Resolves) =>
          IF IdentityNew /\ DepthAllows
          THEN PushesChild
          ELSE /\ PushesNothing
               /\ PrintsChildLine
               /\ output'[Len(output')].is_recursive <=> ~IdentityNew
      ]_vars

\* C18: a drained plain directory that resolves gets a frame pushed, and
\* no line of the step, if its identity is new, depth+1 is below the
\* maximum and it can be opened; if it cannot be opened nothing is pushed
\* and nothing printed; and if its identity is present or the depth bound
\* is hit nothing is pushed and exactly one line is printed for it, not a
\* symlink line, marked recursive exactly when its identity was already
\* in the set.
C18_PlainDirectoryBranch ==
    [][ (DrainsPlain /\ Resolves) =>
          IF IdentityNew /\ DepthAllows
          THEN /\ output' = output
               /\ IF Opens THEN PushesChild ELSE PushesNothing
          ELSE /\ PushesNothing
               /\ PrintsChildLine
               /\ ~output'[Len(output')].is_symdir
               /\ output'[Len(output')].is_recursive <=> ~IdentityNew
      ]_vars

\* A run has ended in which one plain directory was printed with the
\* recursive marker and another, refused for the depth bound, without it.
C18_Witness ==
    /\ pc = "done"
    /\ \E i \in DOMAIN output :
          /\ output[i].src = "drain"
          /\ ~output[i].is_symdir
          /\ output[i].is_recursive
    /\ \E i \in DOMAIN output :
          /\ output[i].src = "drain"
          /\ ~output[i].is_symdir
          /\ ~output[i].is_recursive

C20_Claimed ==
    [][ (DrainsSymlink /\ ~PushesChild) =>
          IF Resolves /\ IdentityNew /\ opts.follow_links /\ ~DepthAllows
          THEN report'.TOTAL_depth = SetMax({report.TOTAL_depth, Top.depth + 1})
          ELSE report'.TOTAL_depth = report.TOTAL_depth
      ]_vars

\* ------------------------------------------------------------------------
\* Properties of the scan of one entry
\* ------------------------------------------------------------------------
\* The accumulator the readdir() loop would hold if it met an entry while
\* frame f is being scanned.  The properties below apply it to the frame
\* on top of the stack, which every frame is when it is scanned.
ProbeAcc(f) == [frame |-> f, report |-> report, head |-> f.subdirs]

FileCounters(acc) ==
    <<acc.frame.dir_file_count, acc.frame.dir_file_size,
      acc.report.TOTAL_file_count, acc.report.TOTAL_file_size,
      acc.report.TOTAL_linked_files>>

\* r is what the loop body makes of acc.  The entry was counted as a
\* file: the local and the total file count went up by one.
CountedAsFile(r, acc) ==
    /\ r.frame.dir_file_count = acc.frame.dir_file_count + 1
    /\ r.report.TOTAL_file_count = acc.report.TOTAL_file_count + 1

\* The entry was queued: one node with its path was added at the end of
\* the list.
QueuedAsChild(r, acc, e) ==
    /\ Len(r.head) = Len(acc.head) + 1
    /\ SubSeq(r.head, 1, Len(acc.head)) = acc.head
    /\ r.head[Len(r.head)].path = Append(acc.frame.path, e.name)

IgnoredEntry(r, acc) == r = acc

\* The entries of a directory that pass the name filter.
NotExcluded(d) == {e \in EntrySet(d) : ~Excluded(e, opts)}

\* C21: every entry that passes the name filter is handled in exactly one
\* way: counted as a file, queued as a child, or ignored.  Queuing leaves
\* the five file counters alone and counting leaves the list alone; a
\* scanned directory's file count and list length are the numbers of its
\* file-like and directory-like entries.
C21_EntryHandledExactlyOneWay ==
    /\ LoopRunning(stack) => \A e \in NotExcluded(Top.dir) :
          \E acc \in {ProbeAcc(Top)} :
          \E r \in {ScanEntry(e, acc, opts)} :
          \E c \in {CountedAsFile(r, acc)} :
          \E q \in {QueuedAsChild(r, acc, e)} :
          \E g \in {IgnoredEntry(r, acc)} :
              /\ Cardinality({x \in {<<"c", c>>, <<"q", q>>, <<"g", g>>} : x[2]}) = 1
              /\ c <=> FileLike(e)
              /\ q <=> DirLike(e)
              /\ q => FileCounters(r) = FileCounters(acc)
              /\ c => r.head = acc.head
    /\ pc = "phase2" =>
          /\ Top.dir_file_count = Len(SelectSeq(fsys[Top.dir], FileLike))
          /\ Len(Top.subdirs) = Len(SelectSeq(fsys[Top.dir], DirLike))

\* A directory has been scanned that holds a counted file, queued
\* children and an entry that passes the filter and is ignored.
C21_Witness ==
    /\ pc = "phase2"
    /\ Top.dir_file_count > 0
    /\ Len(Top.subdirs) > 0
    /\ \E e \in NotExcluded(Top.dir) : e.mode = "other"

\* The symbolic links of a directory that pass the name filter and can be
\* examined.
LinksOf(d) == {e \in NotExcluded(d) : e.lstat_ok /\ e.lnk}

LinkedFileEntry(e) == FileLike(e) /\ e.lnk

\* C22: scanning a dangling symlink adds one to the directory's file
\* count, to TOTAL_file_count and to TOTAL_linked_files and leaves both
\* size totals alone; scanning a symlink to a regular file adds one to the
\* same three counts and the target's size to both size totals.  With no
\* symlinked directory in the tree the linked total at the end is the
\* number of such links in the directories scanned.
C22_LinkedFileCounters ==
    /\ LoopRunning(stack) => \A e \in LinksOf(Top.dir) :
          LET acc == ProbeAcc(Top)
              r == ScanEntry(e, acc, opts)
          IN  /\ e.mode = "none" =>
                    FileCounters(r) =
                        <<acc.frame.dir_file_count + 1, acc.frame.dir_file_size,
                          acc.report.TOTAL_file_count + 1, acc.report.TOTAL_file_size,
                          acc.report.TOTAL_linked_files + 1>>
              /\ e.mode = "reg" =>
                    FileCounters(r) =
                        <<acc.frame.dir_file_count + 1,
                          acc.frame.dir_file_size + e.size,
                          acc.report.TOTAL_file_count + 1,
                          acc.report.TOTAL_file_size + e.size,
                          acc.report.TOTAL_linked_files + 1>>
    /\ (pc = "done" /\ status = "success"
          /\ \A d \in Dirs : \A e \in EntrySet(d) : ~(DirLike(e) /\ e.lnk)) =>
          report.TOTAL_linked_files =
              SumSeq([i \in DOMAIN scanned |->
                        Len(SelectSeq(fsys[scanned[i].dir], LinkedFileEntry))],
                     Len(scanned))

\* A directory holding a regular file of size 10, a symlink to a file of
\* size 3 and a dangling symlink has been scanned.
C22_Witness ==
    /\ pc = "phase2"
    /\ \E e \in LinksOf(Top.dir) : e.mode = "none"
    /\ \E e \in LinksOf(Top.dir) : e.mode = "reg" /\ e.size = 3
    /\ Top.dir_file_count = 3
    /\ Top.dir_file_size = 13
    /\ report.TOTAL_linked_files >= 2

\* The entries of a directory that pass the name filter and are none of
\* regular file, symlink to a regular file, dangling symlink, directory
\* and symlink to a directory: sockets and devices, symlinks to such, and
\* entries that are no symlink and whose resolution failed.
OtherEntries(d) ==
    {e \in NotExcluded(d) : e.lstat_ok /\ ~FileLike(e) /\ ~DirLike(e)}

OtherNames == UNION {{e.name : e \in OtherEntries(d)} : d \in Dirs}

\* C23: scanning an entry of none of the five handled kinds changes no
\* counter, queues no file line and no child; no line printed, no queued
\* child and no frame entered carries the name of such an entry.
C23_OtherEntriesIgnored ==
    /\ LoopRunning(stack) => \E acc \in {ProbeAcc(Top)} :
          \A e \in OtherEntries(Top.dir) : ScanEntry(e, acc, opts) = acc
    /\ \E others \in {OtherNames} :
          /\ \A i \in DOMAIN output : output[i].name \notin others
          /\ \A k \in DOMAIN stack : \A j \in DOMAIN stack[k].subdirs :
                Basename(stack[k].subdirs[j].path) \notin others
          /\ \A i \in DOMAIN entered : Basename(entered[i].path) \notin others

\* A run with file listing on has ended in which a directory holding a
\* socket, a symlink to a socket and a non-symlink that could not be
\* resolved was scanned.
C23_Witness ==
    /\ pc = "done"
    /\ status = "success"
    /\ opts.show_files
    /\ \E i \in DOMAIN scanned :
          /\ \E e \in OtherEntries(scanned[i].dir) : ~e.lnk /\ e.mode = "other"
          /\ \E e \in OtherEntries(scanned[i].dir) : e.lnk /\ e.mode = "other"
          /\ \E e \in OtherEntries(scanned[i].dir) : ~e.lnk /\ e.mode = "none"

\* ------------------------------------------------------------------------
\* Properties of directory handles and of the exit status
\* ------------------------------------------------------------------------
\* A frame is named by its path; its handle is open from Create_Frame to
\* closedir.
EnteredPaths == {entered[i].path : i \in DOMAIN entered}
ClosedPaths == {closed[i] : i \in DOMAIN closed}
StackPaths == {stack[k].path : k \in DOMAIN stack}
OpenHandles == EnteredPaths \ ClosedPaths

\* C24: a handle is closed at most once and only if it was opened for a
\* frame; the open handles are those of the frames on the stack, so a
\* handle is closed at the pop of its frame and not before, and their
\* number is the stack height; when the run has ended every handle
\* opened has been closed.
C24_HandlesFollowStack ==
    /\ Cardinality(EnteredPaths) = Len(entered)
    /\ Cardinality(ClosedPaths) = Len(closed)
    /\ ClosedPaths \subseteq EnteredPaths
    /\ OpenHandles = StackPaths
    /\ Cardinality(OpenHandles) = Len(stack)
    /\ pc = "done" => (OpenHandles = {} /\ Len(closed) = Len(entered))

\* A run has ended in which a directory could not be opened, another
\* was refused for the depth bound, and two frames were opened and closed.
C24_Witness ==
    /\ pc = "done"
    /\ fault.noopen # {}
    /\ \E i \in DOMAIN calls : calls[i].site = "refused" /\ calls[i].absent
    /\ Len(closed) >= 2

\* The step drains a child, symlinked or plain, that the walk decides to
\* descend into and that cannot be opened.
TriesUnopenable ==
    /\ AtPhase2
    /\ ~CurrentIsNull(Top)
    /\ Resolves /\ IdentityNew /\ DepthAllows
    /\ CurrentNode.is_symlink => opts.follow_links
    /\ ~Opens

EnteredDirs == {entered[i].dir : i \in DOMAIN entered}

\* C25: a step that tries to descend into a child that cannot be opened
\* pushes no frame and creates none, does not end the run, and moves the
\* parent on to its next child, the frames below and the parent's list
\* and counters unchanged; a frame leaves the stack only when all its children have been drained;
\* and a walk with an unopenable directory ends with the empty stack and
\* success.
C25_UnopenableChildSkipped ==
    /\ [][ TriesUnopenable =>
             /\ PushesNothing
             /\ SubSeq(stack', 1, Len(stack) - 1) = SubSeq(stack, 1, Len(stack) - 1)
             /\ [stack'[Len(stack)] EXCEPT
                    !.ancestor_siblings = Top.ancestor_siblings]
                  = [Top EXCEPT !.current = @ + 1]
             /\ pc' = "loop"
             /\ status' = "none"
         ]_vars
    /\ [][ Len(stack') < Len(stack) => CurrentIsNull(Top) ]_vars
    /\ [](pc = "done" /\ fault.noopen # {} /\ Root \notin fault.noopen
            => Len(stack) = 0 /\ status = "success")
    /\ (pc = "loop" /\ fault.noopen # {})
          ~> (pc = "done" /\ Len(stack) = 0 /\ status = "success")

\* A run has ended with success in which a directory that could not be
\* opened was never entered and a sibling enumerated after it was.
C25_Witness ==
    /\ pc = "done"
    /\ status = "success"
    /\ \E i \in DOMAIN scanned :
          LET ds == SelectSeq(fsys[scanned[i].dir], DirLike)
          IN  \E a, b \in DOMAIN ds :
                 /\ a < b
                 /\ ~ds[a].lnk
                 /\ ds[a].ino \in fault.noopen
                 /\ ds[a].ino \notin EnteredDirs
                 /\ ds[b].ino \in EnteredDirs

\* The start directory is named on the command line and can be opened.
RootUsable == start_given /\ Root \notin fault.noopen

StackSlots == MAX_DEPTH + 2

\* C27: the stack pointer is never negative and never above max_depth,
\* which is never above MAX_DEPTH; the frame in slot k has depth k, so a
\* push writes a slot inside the array of MAX_DEPTH + 2, also when the
\* tree holds a symlink cycle.
C27_StackWithinArray ==
    /\ 0 <= sp
    /\ sp <= opts.max_depth
    /\ opts.max_depth <= MAX_DEPTH
    /\ sp < StackSlots
    /\ \A k \in DOMAIN stack : stack[k].depth = k - 1 /\ k <= StackSlots

\* On a tree with a symlink cycle the stack is as high as the largest
\* max_depth allows.
C27_Witness ==
    /\ pc \in {"loop", "phase2"}
    /\ HasSymlinkCycle
    /\ opts.follow_links
    /\ opts.max_depth = MAX_DEPTH
    /\ sp = opts.max_depth

\* The value an integer n is clamped to.
Clamped(n, lo, hi) == IF n < lo THEN lo ELSE IF n > hi THEN hi ELSE n

\* C28 as claimed: for every integer given to -d, max_depth is 2 if the
\* integer is below 2, MAX_DEPTH if it is above MAX_DEPTH and the integer
\* itself otherwise; without -d max_depth is MAX_DEPTH.
C28_Claimed ==
    /\ \A n \in DepthArgs :
          ParseDepth(TRUE, atoi(n), MAX_DEPTH) = Clamped(n, MinDepth, MAX_DEPTH)
    /\ ParseDepth(FALSE, 0, MAX_DEPTH) = MAX_DEPTH
    /\ opts.max_depth \in MinDepth .. MAX_DEPTH

\* What holds of -d: the result lies in [2, MAX_DEPTH] for every integer,
\* and is the clamped integer for every integer an int can hold.
DepthInRange ==
    /\ \A n \in DepthArgs :
          /\ ParseDepth(TRUE, atoi(n), MAX_DEPTH) \in MinDepth .. MAX_DEPTH
          /\ (n >= 0 - 2^(IntBits - 1) /\ n <= 2^(IntBits - 1) - 1) =>
                ParseDepth(TRUE, atoi(n), MAX_DEPTH) = Clamped(n, MinDepth, MAX_DEPTH)
    /\ ParseDepth(FALSE, 0, MAX_DEPTH) = MAX_DEPTH
    /\ opts.max_depth \in MinDepth .. MAX_DEPTH

\* ------------------------------------------------------------------------
\* Properties of the report and of the visited set over time
\* ------------------------------------------------------------------------
ReportFields == DOMAIN ZeroReport

\* C29: no step of a run lowers a field of the report: the directory,
\* linked-directory, file and linked-file counts, the size total and the
\* maximum depth each stay or grow.
C29_ReportNeverDecreases ==
    [][ \A fld \in ReportFields : report'[fld] >= report[fld] ]_vars

\* A run has ended with every field of the report above zero and the
\* maximum depth reached before the last directory was entered.
C29_Witness ==
    /\ pc = "done"
    /\ status = "success"
    /\ \A fld \in ReportFields : report[fld] > 0
    /\ report.TOTAL_depth > entered[Len(entered)].depth

\* C30: from the creation of the visited set to the end of the walk no
\* step takes an identity out of it: an identity that visited_before
\* finds is found in every later state, and a put keeps what the set
\* held.
C30_VisitedAppendOnly ==
    /\ [][ /\ visited \subseteq visited'
           /\ \A id \in AllIdentities :
                 visited_before(visited, id) => visited_before(visited', id)
       ]_vars
    /\ [](\A id \in AllIdentities :
             /\ visited \subseteq add_visited_set(visited, id)
             /\ visited_before(add_visited_set(visited, id), id))

\* The walk has ended with three identities in the set, one of them met
\* again after it was put there.
C30_Witness ==
    /\ pc = "done"
    /\ Cardinality(visited) >= 3
    /\ \E i \in DOMAIN calls : ~calls[i].absent
    /\ \E i \in DOMAIN output : output[i].is_recursive

\* ------------------------------------------------------------------------
\* Properties of the rendered prefix
\* ------------------------------------------------------------------------
\* The lines a step prints.
NewLines == (Len(output) + 1) .. Len(output')

\* C31: in every line a step prints at depth d the prefix has one glyph
\* for each level i with 1 <= i < d, and the glyph of level i is the
\* vertical bar exactly when the frame at depth i on the stack was not
\* the last child of its parent, that is when the parent's iterator had
\* not reached the end of its list.
C31_PrefixFollowsAncestors ==
    [][ \A j \in NewLines :
          /\ Len(output'[j].prefix) =
                (IF output'[j].depth > 1 THEN output'[j].depth - 1 ELSE 0)
          /\ \A i \in 1 .. (output'[j].depth - 1) :
                /\ output'[j].prefix[i] <=> ~CurrentIsNull(stack[i])
                /\ output'[j].prefix[i] <=> ~stack[i + 1].is_last
      ]_vars

\* A line has just been printed at depth 2 under a first-level directory
\* that has a sibling left, which shows as the bar at level 1.
C31_Witness ==
    /\ pc \in {"loop", "phase2"}
    /\ Len(output) > 0
    /\ LastLine.depth = 2
    /\ LastLine.prefix = <<TRUE>>
    /\ ~CurrentIsNull(stack[1])

\* ------------------------------------------------------------------------
\* Properties of the life of a frame
\* ------------------------------------------------------------------------
\* The scans made and the directory lines printed by phase 1 for the
\* frame at path P.
ScansAt(P) == {k \in DOMAIN scanned : scanned[k].path = P}
ScanLinesAt(P) ==
    {j \in DOMAIN output :
        output[j].src = "scan" /\ output[j].is_dir /\ output[j].owner = P}

\* C32: a frame is scanned at most once and its directory line is printed
\* by that scan; a frame not yet scanned is the top frame, fresh from
\* Create_Frame, at the start of an iteration; a frame that has a frame
\* above it, has advanced its iterator or has been popped has been
\* scanned exactly once, whether or not its scan queued a child.
C32_ScanOncePerFrame ==
    /\ \A k \in DOMAIN scanned : scanned[k].path \in EnteredPaths
    /\ \A i \in DOMAIN entered :
          \E n \in {Cardinality(ScansAt(entered[i].path))} :
             /\ n <= 1
             /\ Cardinality(ScanLinesAt(entered[i].path)) = n
             /\ entered[i].path \in ClosedPaths => n = 1
             /\ n = 0 =>
                   /\ pc = "loop"
                   /\ Top.path = entered[i].path
                   /\ Top.current = 1
                   /\ Top.subdirs = <<>>
    /\ \A k \in DOMAIN stack :
          (k < Len(stack) \/ stack[k].current > 1 \/ pc = "phase2") =>
             Cardinality(ScansAt(stack[k].path)) = 1

\* A run has ended in which a directory without directory entries was
\* scanned once, its files listed, and popped.
C32_Witness ==
    /\ pc = "done"
    /\ status = "success"
    /\ \E k \in DOMAIN scanned :
          /\ SelectSeq(fsys[scanned[k].dir], DirLike) = <<>>
          /\ scanned[k].dir_file_count > 0
          /\ scanned[k].path \in ClosedPaths
          /\ \E j \in DOMAIN output :
                output[j].src = "file" /\ output[j].owner = scanned[k].path

\* The frames that are on the stack before and after a step.
KeptFrames == DOMAIN stack \cap DOMAIN stack'

\* C33: the scan leaves the iterator at the first queued child; a drain
\* step handles the child under the iterator and moves the iterator on by
\* exactly one; no other step moves an iterator and no step after the
\* scan changes a list; a frame is popped only when its iterator has
\* passed the last queued child.
C33_ChildrenDrainedOnce ==
    /\ [][ scanned' # scanned =>
             /\ stack'[Len(stack)].current = 1
             /\ Len(stack'[Len(stack)].subdirs) =
                   Len(SelectSeq(fsys[Top.dir], DirLike)) ]_vars
    /\ [][ (AtPhase2 /\ ~CurrentIsNull(Top)) =>
             /\ stack'[Len(stack)].current = Top.current + 1
             /\ stack'[Len(stack)].subdirs = Top.subdirs
             /\ Len(stack') > Len(stack) =>
                   stack'[Len(stack')].path = CurrentNode.path
             /\ \A j \in NewLines : output'[j].owner = CurrentNode.path ]_vars
    /\ [][ \A k \in KeptFrames :
             /\ k < Len(stack) => stack'[k] = stack[k]
             /\ (k = Len(stack) /\ (~AtPhase2 \/ CurrentIsNull(Top))) =>
                   stack'[k].current = stack[k].current
             /\ stack[k].subdirs # <<>> => stack'[k].subdirs = stack[k].subdirs
         ]_vars
    /\ [][ Len(stack') < Len(stack) =>
             Top.current = Len(Top.subdirs) + 1 ]_vars
    /\ [](\A k \in DOMAIN stack :
             stack[k].current \in 1 .. (Len(stack[k].subdirs) + 1))

\* A frame with three queued children has drained them all, the second
\* of them by a descent, and is about to be popped.
C33_Witness ==
    /\ pc = "loop"
    /\ LoopRunning(stack)
    /\ Len(Top.subdirs) = 3
    /\ Top.current = 4
    /\ Top.subdirs[2].path \in ClosedPaths

\* ------------------------------------------------------------------------
\* Properties of the recursive marker and of frames per identity
\* ------------------------------------------------------------------------
\* C34 as claimed: a step that drains a child prints the recursive marker
\* only if a frame was created earlier for the child's identity, and
\* finds the identity present, which refuses the descent, only in that
\* case.
C34_Claimed ==
    [][ (AtPhase2 /\ ~CurrentIsNull(Top)) =>
          /\ \A j \in NewLines :
                output'[j].is_recursive =>
                    Identity(CurrentNode.ino) \in EnteredIds
          /\ (Resolves /\ ~IdentityNew) =>
                Identity(CurrentNode.ino) \in EnteredIds
      ]_vars

\* What holds instead: the marker is printed only for an identity that
\* is in the visited set, which holds the entered directories and the
\* plain directories refused while new.
RecursiveOnlyIfVisited ==
    [][ (AtPhase2 /\ ~CurrentIsNull(Top)) =>
          \A j \in NewLines :
             output'[j].is_recursive =>
                 Identity(CurrentNode.ino) \in (EnteredIds \cup RefusedNewIds)
      ]_vars

\* C35: on every file system, with or without symlink cycles, and under
\* every option setting no directory has had more than one frame created
\* for it, and the frames on the stack are frames of pairwise different
\* directories.
C35_OneFramePerIdentity ==
    /\ \A d \in Dirs : Cardinality(FramesCreatedFor(d)) <= 1
    /\ Cardinality(EnteredIds) = Len(entered)
    /\ \A a, b \in DOMAIN stack :
          a # b => Identity(stack[a].dir) # Identity(stack[b].dir)

\* On a tree with a symlink cycle and links followed, a walk that entered
\* every directory has ended after meeting an entered directory again.
C35_Witness ==
    /\ pc = "done"
    /\ HasSymlinkCycle
    /\ opts.follow_links
    /\ EnteredIds = AllIdentities
    /\ \E j \in DOMAIN output : output[j].is_recursive /\ output[j].is_symdir

\* ------------------------------------------------------------------------
\* Properties of the stack discipline
\* ------------------------------------------------------------------------
\* C36: the frame in slot i (counted from 0) has depth i and, above the
\* root, is the frame of an entry of the frame directly below it; a push
\* puts one frame of the top frame's depth plus one on top; a scan is a
\* scan of the top frame, a pop removes the top frame, and no step
\* changes a frame below the top.
C36_StackIndexIsDepth ==
    /\ [](\A k \in DOMAIN stack :
             /\ stack[k].depth = k - 1
             /\ k > 1 =>
                   /\ stack[k].depth = stack[k - 1].depth + 1
                   /\ ParentPath(stack[k].path) = stack[k - 1].path)
    /\ [][ Len(stack') > Len(stack) =>
             /\ pc # "start" =>
                   /\ stack' = Append([stack EXCEPT ![Len(stack)] = stack'[Len(stack)]],
                                      stack'[Len(stack')])
                   /\ stack'[Len(stack')].depth = Top.depth + 1
             /\ pc = "start" => (Len(stack') = 1 /\ stack'[1].depth = 0) ]_vars
    /\ [][ scanned' # scanned =>
             /\ scanned' = Append(scanned, scanned'[Len(scanned')])
             /\ scanned'[Len(scanned')].path = Top.path ]_vars
    /\ [][ Len(stack') < Len(stack) =>
             /\ stack' = SubSeq(stack, 1, Len(stack) - 1)
             /\ closed' = Append(closed, Top.path) ]_vars
    /\ [][ \A k \in KeptFrames : k < Len(stack) => stack'[k] = stack[k] ]_vars

\* Two frames are on the stack, the top one just scanned in the slot
\* that an earlier frame, since popped, had held.
C36_Witness ==
    /\ pc = "phase2"
    /\ Len(stack) = 2
    /\ Top.depth = 1
    /\ Len(closed) = 1
    /\ Len(scanned) = 3

\* ------------------------------------------------------------------------
\* Properties of a failed descent and of the directory total
\* ------------------------------------------------------------------------
StackPathsSeq == [k \in DOMAIN stack |-> stack[k].path]

\* C37: a step that tries to descend into a child, symlinked or plain,
\* that cannot be opened leaves the frames on the stack those they were,
\* puts nothing in the visited set, calls add_visited not at all, and
\* leaves TOTAL_directories and TOTAL_depth as they were.
C37_FailedOpenLeavesStateAlone ==
    [][ TriesUnopenable =>
          /\ [k \in DOMAIN stack' |-> stack'[k].path] = StackPathsSeq
          /\ visited' = visited
          /\ calls' = calls
          /\ entered' = entered
          /\ report'.TOTAL_directories = report.TOTAL_directories
          /\ report'.TOTAL_depth = report.TOTAL_depth
      ]_vars

\* A run has ended in which the one directory that could not be opened
\* was tried through a symlink and as a plain entry and is neither in the
\* visited set nor counted.
C37_Witness ==
    /\ pc = "done"
    /\ status = "success"
    /\ opts.follow_links
    /\ \E d \in fault.noopen :
          /\ Identity(d) \notin visited
          /\ \E i \in DOMAIN scanned : \E e \in EntrySet(scanned[i].dir) :
                DirLike(e) /\ e.lnk /\ e.ino = d
          /\ \E i \in DOMAIN scanned : \E e \in EntrySet(scanned[i].dir) :
                DirLike(e) /\ ~e.lnk /\ e.ino = d
    /\ report.TOTAL_directories = Cardinality(visited) - 1

\* The identities a step puts in the visited set.
Inserted == visited' \ visited

=============================================================================
